---- MODULE Spec2Model ----
(***************************************************************************)
(* Model of the OpenAPI-to-command-tree compiler of cloudflare-cli:        *)
(* src/src/openapi.rs (build_command_tree and its helpers) and the         *)
(* generator binary src/src/bin/gen_command_tree.rs that runs it.          *)
(*                                                                         *)
(* Strings are sequences of characters; a character is a one-character     *)
(* string, except the non-ASCII letters, which are written "U+00E9" and    *)
(* "U+00C9".                                                               *)
(***************************************************************************)
EXTENDS Integers, Sequences, FiniteSets, TLC

VARIABLES
    pc,         \* position of run() of gen_command_tree
    doc,        \* Option<Value>: the parsed document, `doc` of run()
    frame,      \* the frame of build_command_tree: its position and locals
    tree,       \* Option<CommandTree>: `tree` of run()
    json,       \* Option<String>: `json` of run()
    file,       \* the output file at out_path
    ninput,     \* normalize_name: the input string
    nout,       \* normalize_name: Option<String>, the value returned
    res,        \* unique_op_name: the Resource operations are added to
    mbase,      \* merge_parameters: base
    mover,      \* merge_parameters: override_params
    mout,       \* merge_parameters: Option<Vec<ParamDef>>, the value returned
    cvalue,     \* collect_parameters: `value`, the `parameters` field
    cout,       \* collect_parameters: Option<Vec<ParamDef>>, the value returned
    uframe      \* the frame of unique_op_name run step by step, or None

vars == <<pc, doc, frame, tree, json, file, ninput, nout, res, mbase, mover, mout,
          cvalue, cout, uframe>>

buildVars == <<pc, doc, frame, tree, json, file>>
normVars == <<ninput, nout>>
nameVars == <<res>>
mergeVars == <<mbase, mover, mout>>
collectVars == <<cvalue, cout>>
searchVars == <<uframe>>

----------------------------------------------------------------------------
(* Bounds of the model. *)

\* longest input string given to normalize_name on its own
MaxLen == 4
\* most operations added to the one Resource of the naming specification
MaxOps == 4
\* longest `parameters` array given to collect_parameters on its own
MaxItems == 3
\* longest info.version text made of the version alphabet
MaxVer == 4
\* longest parameter list given to merge_parameters on its own
MaxParams == 2
\* most path entries of a document
MaxPaths == 2

----------------------------------------------------------------------------
(* Option<T> *)

None == [some |-> FALSE, v |-> <<>>]

Some(x) == [some |-> TRUE, v |-> x]

----------------------------------------------------------------------------
(* Characters and strings. *)

Lower ==
    <<"a","b","c","d","e","f","g","h","i","j","k","l","m",
      "n","o","p","q","r","s","t","u","v","w","x","y","z">>

Upper ==
    <<"A","B","C","D","E","F","G","H","I","J","K","L","M",
      "N","O","P","Q","R","S","T","U","V","W","X","Y","Z">>

Digit == <<"0","1","2","3","4","5","6","7","8","9">>

Range(s) == {s[i] : i \in 1..Len(s)}

IndexOf(s, x) == CHOOSE i \in 1..Len(s) : s[i] = x

LowerChars == Range(Lower)

UpperChars == Range(Upper)

DigitChars == Range(Digit)

AlnumChars == LowerChars \cup UpperChars \cup DigitChars

\* char::is_ascii_alphanumeric
is_ascii_alphanumeric(ch) ==
    ch \in AlnumChars

\* char::to_ascii_lowercase
to_ascii_lowercase(ch) ==
    IF ch \in UpperChars THEN Lower[IndexOf(Upper, ch)] ELSE ch

\* char::to_ascii_uppercase
to_ascii_uppercase(ch) ==
    IF ch \in LowerChars THEN Upper[IndexOf(Lower, ch)] ELSE ch

\* str::to_uppercase, on the ASCII method names it is applied to
to_uppercase(s) == [i \in 1..Len(s) |-> to_ascii_uppercase(s[i])]

\* The code point of a character: the order of String's Ord is the order of
\* the UTF-8 bytes, which is the order of the code points.
Code(ch) ==
    CASE ch \in LowerChars -> 96 + IndexOf(Lower, ch)
      [] ch \in UpperChars -> 64 + IndexOf(Upper, ch)
      [] ch \in DigitChars -> 47 + IndexOf(Digit, ch)
      [] ch = " " -> 32
      [] ch = "-" -> 45
      [] ch = "." -> 46
      [] ch = "/" -> 47
      [] ch = "_" -> 95
      [] ch = "{" -> 123
      [] ch = "}" -> 125
      [] ch = "U+00C9" -> 201
      [] ch = "U+00E9" -> 233

\* a < b in String's Ord (lexicographic by byte)
RECURSIVE StrLessFrom(_, _, _)
StrLessFrom(a, b, i) ==
    IF i > Len(a) THEN i <= Len(b)
    ELSE IF i > Len(b) THEN FALSE
    ELSE IF a[i] = b[i] THEN StrLessFrom(a, b, i + 1)
    ELSE Code(a[i]) < Code(b[i])

StrLess(a, b) == StrLessFrom(a, b, 1)

\* u32 to its decimal text, as format!("{idx}") writes it
RECURSIVE ToDecimal(_)
ToDecimal(n) ==
    IF n < 10 THEN <<Digit[n + 1]>>
    ELSE Append(ToDecimal(n \div 10), Digit[(n % 10) + 1])

----------------------------------------------------------------------------
(* normalize_name and normalize_flag, openapi.rs 205-222 *)

\* the for loop of normalize_name from character i on, with its locals
RECURSIVE normalize_loop(_, _, _, _)
normalize_loop(input, i, out, dash) ==
    IF i > Len(input) THEN out
    ELSE IF is_ascii_alphanumeric(input[i])
         THEN normalize_loop(input, i + 1,
                             Append(out, to_ascii_lowercase(input[i])), FALSE)
    ELSE IF ~dash
         THEN normalize_loop(input, i + 1, Append(out, "-"), TRUE)
    ELSE normalize_loop(input, i + 1, out, dash)

\* str::trim_matches(c)
trim_matches(s, c) ==
    LET keep == {i \in 1..Len(s) : s[i] # c}
    IN  IF keep = {} THEN <<>>
        ELSE SubSeq(s, CHOOSE i \in keep : \A j \in keep : i <= j,
                       CHOOSE i \in keep : \A j \in keep : j <= i)

\* normalize_name without the final trim
normalize_name_untrimmed(input) == normalize_loop(input, 1, <<>>, FALSE)

normalize_name(input) ==
    trim_matches(normalize_loop(input, 1, <<>>, FALSE), "-")

\* str::replace("--", "-"): non-overlapping matches, left to right
RECURSIVE replace_double_dash(_, _)
replace_double_dash(s, i) ==
    IF i > Len(s) THEN <<>>
    ELSE IF i < Len(s) /\ s[i] = "-" /\ s[i + 1] = "-"
         THEN <<"-">> \o replace_double_dash(s, i + 2)
    ELSE <<s[i]>> \o replace_double_dash(s, i + 1)

normalize_flag(input) == replace_double_dash(normalize_name(input), 1)

----------------------------------------------------------------------------
(* Strings of the documents. *)

S_get == <<"g", "e", "t">>
S_post == <<"p", "o", "s", "t">>
S_put == <<"p", "u", "t">>
S_patch == <<"p", "a", "t", "c", "h">>
S_delete == <<"d", "e", "l", "e", "t", "e">>
S_options == <<"o", "p", "t", "i", "o", "n", "s">>
S_head == <<"h", "e", "a", "d">>

\* openapi.rs 32-34
methods == <<S_get, S_post, S_put, S_patch, S_delete, S_options, S_head>>

----------------------------------------------------------------------------
(* unique_op_name, openapi.rs 224-243, and the push of lines 91-101 *)

\* the names of a Resource's operations: `existing` of unique_op_name
existing_names(resource) == {resource.ops[i].name : i \in 1..Len(resource.ops)}

\* the loop of unique_op_name from idx on
RECURSIVE suffix_loop(_, _, _)
suffix_loop(existing, candidate, idx) ==
    LET next == candidate \o <<"-">> \o ToDecimal(idx)
    IN  IF next \notin existing THEN next
        ELSE suffix_loop(existing, candidate, idx + 1)

\* unique_op_name with the numeric suffixes starting at 1
unique_op_name_from_one(resource, base, method) ==
    LET existing == existing_names(resource)
        candidate == base \o <<"-">> \o method
    IN  IF base \notin existing THEN base
        ELSE IF candidate \notin existing THEN candidate
        ELSE suffix_loop(existing, candidate, 1)

\* unique_op_name without the loop of numeric suffixes
unique_op_name_no_suffix(resource, base, method) ==
    IF base \notin existing_names(resource) THEN base
    ELSE base \o <<"-">> \o method

unique_op_name(resource, base, method) ==
    LET existing == existing_names(resource)
        candidate == base \o <<"-">> \o method
    IN  IF base \notin existing THEN base
        ELSE IF candidate \notin existing THEN candidate
        ELSE suffix_loop(existing, candidate, 2)

\* lines 91-101: name the operation and push it to the Resource's ops
push_operation(resource, op_id, method, path, summary, description, parameters, has_body) ==
    [resource EXCEPT !.ops = Append(@,
        [name |-> unique_op_name(resource, normalize_name(op_id), method),
         display_name |-> op_id,
         method |-> to_uppercase(method),
         path |-> path,
         summary |-> summary,
         description |-> description,
         parameters |-> parameters,
         has_body |-> has_body])]

----------------------------------------------------------------------------
(* BTreeMap<K, V>: a sequence of <<key, value>> pairs, ascending by key. *)

\* (a, b) < (c, d) in the Ord of (String, String)
PairLess(p, q) ==
    \/ StrLess(p[1], q[1])
    \/ p[1] = q[1] /\ StrLess(p[2], q[2])

btree_keys(map) == {map[i][1] : i \in 1..Len(map)}

\* BTreeMap<(String, String), V>::insert: the value of a key already held is
\* replaced, a new key goes to its place in the order
btree_insert(map, key, value) ==
    IF key \in btree_keys(map)
    THEN [i \in 1..Len(map) |->
              IF map[i][1] = key THEN <<key, value>> ELSE map[i]]
    ELSE LET before == Cardinality({i \in 1..Len(map) : PairLess(map[i][1], key)})
         IN  SubSeq(map, 1, before) \o <<<<key, value>>>>
                 \o SubSeq(map, before + 1, Len(map))

\* BTreeMap::into_values
into_values(map) == [i \in 1..Len(map) |-> map[i][2]]

----------------------------------------------------------------------------
(* ParamDef and merge_parameters, openapi.rs 157-165 and 194-203 *)

\* the ParamDef collect_parameters pushes, lines 157-165
param_def(name, location, required, list, schema_type, description) ==
    [name |-> name,
     flag |-> normalize_flag(name),
     location |-> location,
     required |-> required,
     list |-> list,
     schema_type |-> schema_type,
     description |-> description]

param_key(param) == <<param.name, param.location>>

\* one `for param in ...` loop of merge_parameters, from element i on
RECURSIVE insert_params(_, _, _)
insert_params(map, params, i) ==
    IF i > Len(params) THEN map
    ELSE insert_params(btree_insert(map, param_key(params[i]), params[i]),
                       params, i + 1)

\* merge_parameters with the two loops in the other order
merge_parameters_base_last(base, override_params) ==
    into_values(insert_params(insert_params(<<>>, override_params, 1), base, 1))

merge_parameters(base, override_params) ==
    into_values(insert_params(insert_params(<<>>, base, 1), override_params, 1))

----------------------------------------------------------------------------
(* The document: serde_yaml::Value, as far as build_command_tree reads it.  *)
(*                                                                         *)
(* A field read with .and_then(Value::as_str) is an Option<String>: Some   *)
(* when the field is there and a string.  A value read with as_str on its  *)
(* own (a path key, a tag) is Str(s) or NotStr.  A `parameters` or `tags`  *)
(* value is absent, a sequence of items, or another value.                 *)
(***************************************************************************)

Str(s) == [is_str |-> TRUE, s |-> s]

NotStr == [is_str |-> FALSE, s |-> <<>>]

Absent == [kind |-> "absent", items |-> <<>>]

SeqOf(items) == [kind |-> "seq", items |-> items]

NotSeq == [kind |-> "other", items |-> <<>>]

\* tags that default to one tag "default" instead of none
as_sequence_or_one(value) ==
    IF value.kind = "seq" /\ value.items # <<>> THEN value.items
    ELSE <<[is_str |-> TRUE, s |-> <<"d", "e", "f", "a", "u", "l", "t">>]>>

\* Value::as_sequence().cloned().unwrap_or_default(), lines 73-77
as_sequence_or_default(value) ==
    IF value.kind = "seq" THEN value.items ELSE <<>>

----------------------------------------------------------------------------
(* parse_major_version, openapi.rs 114-119 *)

\* A u32 is written as its decimal digits without leading zeros: the
\* values near 2^32 are beyond the integers of the model checker.
U32Max == <<"4", "2", "9", "4", "9", "6", "7", "2", "9", "5">>

FallbackVersion == <<"4">>

DefaultEndpoint == "https://api.cloudflare.com/client/v4"

\* input.split('.').next(): the text before the first '.'
split_dot_first(input) ==
    LET dots == {i \in 1..Len(input) : input[i] = "."}
    IN  IF dots = {} THEN input
        ELSE SubSeq(input, 1, (CHOOSE i \in dots : \A j \in dots : i <= j) - 1)

\* the digits of a number without its leading zeros
strip_leading_zeros(digits) ==
    LET nonzero == {i \in 1..Len(digits) : digits[i] # "0"}
    IN  IF nonzero = {} THEN <<"0">>
        ELSE SubSeq(digits, CHOOSE i \in nonzero : \A j \in nonzero : i <= j,
                    Len(digits))

\* a <= b for two numbers written without leading zeros
U32LessEq(x, y) ==
    \/ Len(x) < Len(y)
    \/ Len(x) = Len(y) /\ (x = y \/ StrLess(x, y))

\* str::parse::<u32>(): an optional '+', then one or more ASCII digits, and
\* a value that fits in 32 bits
parse_u32(s) ==
    LET digits == IF Len(s) > 0 /\ s[1] = "+" THEN Tail(s) ELSE s
    IN  IF Len(digits) = 0 \/ \E i \in 1..Len(digits) : digits[i] \notin DigitChars
        THEN None
        ELSE IF ~U32LessEq(strip_leading_zeros(digits), U32Max) THEN None
        ELSE Some(strip_leading_zeros(digits))

\* a parse of the whole text, minor versions and all
parse_whole_version(input) == parse_u32(input)

parse_major_version(input) == parse_u32(split_dot_first(input))

----------------------------------------------------------------------------
(* parse_schema and collect_parameters, openapi.rs 121-192 *)

S_array == <<"a", "r", "r", "a", "y">>

\* a schema value: is_map when `schema` is there and a mapping; type and
\* items_type are the strings at schema.type and schema.items.type
NoSchema == [is_map |-> FALSE, type |-> None, items_type |-> None]

Schema(type, items_type) ==
    [is_map |-> TRUE, type |-> type, items_type |-> items_type]

\* a parse_schema that reports no schema_type for an array without items.type
parse_schema_items_only(schema) ==
    IF ~schema.is_map THEN <<None, FALSE>>
    ELSE IF schema.type = Some(S_array) THEN <<schema.items_type, TRUE>>
    ELSE <<schema.type, FALSE>>

\* parse_schema: <<schema_type, list>>
parse_schema(schema) ==
    IF ~schema.is_map THEN <<None, FALSE>>
    ELSE LET list == schema.type = Some(S_array)
         IN  IF list
             THEN <<IF schema.items_type.some THEN schema.items_type
                    ELSE Some(S_array), TRUE>>
             ELSE <<schema.type, FALSE>>

\* an item of a `parameters` array
RawParam(name, loc, required, description, schema) ==
    [is_map |-> TRUE, name |-> name, loc |-> loc, required |-> required,
     description |-> description, schema |-> schema]

NotAMapping ==
    [is_map |-> FALSE, name |-> None, loc |-> None, required |-> None,
     description |-> None, schema |-> NoSchema]

\* the for loop of collect_parameters from item i on
RECURSIVE collect_loop(_, _, _)
collect_loop(list, i, out) ==
    IF i > Len(list) THEN out
    ELSE LET item == list[i]
         IN  IF ~item.is_map THEN collect_loop(list, i + 1, out)
             ELSE IF ~(item.name.some /\ item.loc.some)
                  THEN collect_loop(list, i + 1, out)
             ELSE LET parsed == parse_schema(item.schema)
                  IN  collect_loop(list, i + 1,
                          Append(out,
                              param_def(item.name.v, item.loc.v,
                                        IF item.required.some THEN item.required.v
                                        ELSE FALSE,
                                        parsed[2], parsed[1], item.description)))

\* a collect_parameters that gives up at the first item it cannot use
collect_parameters_until_malformed(value) ==
    IF value.kind # "seq" THEN <<>>
    ELSE LET bad == {i \in 1..Len(value.items) :
                        ~(value.items[i].is_map /\ value.items[i].name.some
                          /\ value.items[i].loc.some)}
             stop == IF bad = {} THEN Len(value.items)
                     ELSE (CHOOSE i \in bad : \A j \in bad : i <= j) - 1
         IN  collect_loop(SubSeq(value.items, 1, stop), 1, <<>>)

collect_parameters(value) ==
    IF value.kind # "seq" THEN <<>> ELSE collect_loop(value.items, 1, <<>>)

----------------------------------------------------------------------------
(* build_command_tree, openapi.rs 7-112, one operator per loop level.      *)
(* The frame holds the position (pc, and pi, mi, ti: the indices of the    *)
(* path, method and tag loops) and the locals.  `resources` is the         *)
(* BTreeMap<String, Resource>.                                             *)
(***************************************************************************)

\* the frame on entry
build_enter ==
    [pc |-> "start", endpoint |-> "", version |-> <<"0">>,
     pi |-> 0, mi |-> 0, ti |-> 0,
     path |-> <<>>, path_params |-> <<>>,
     op_id |-> <<>>, summary |-> None, description |-> None,
     parameters |-> <<>>, has_body |-> FALSE, tags |-> <<>>,
     resources |-> <<>>, result |-> None]

\* an insert that does not look for the key first
resources_always_insert(map, key, value) ==
    LET before == Cardinality({i \in 1..Len(map) : StrLess(map[i][1], key)})
    IN  SubSeq(map, 1, before) \o <<<<key, value>>>>
            \o SubSeq(map, before + 1, Len(map))

\* the same with the new key put last: a map that keeps insertion order
resources_entry_or_append(map, key, value) ==
    IF key \in btree_keys(map) THEN map ELSE Append(map, <<key, value>>)

\* resources.entry(key).or_insert_with(|| value): the map with the key held
resources_entry_or_insert(map, key, value) ==
    IF key \in btree_keys(map) THEN map
    ELSE LET before == Cardinality({i \in 1..Len(map) : StrLess(map[i][1], key)})
         IN  SubSeq(map, 1, before) \o <<<<key, value>>>>
                 \o SubSeq(map, before + 1, Len(map))

\* the body of the tag loop for a string tag, lines 84-101
insert_operation(map, tag, op_id, method, path, summary, description, parameters, has_body) ==
    LET res_name == normalize_name(tag)
        held == resources_entry_or_insert(map, res_name,
                    [name |-> res_name, display_name |-> tag, ops |-> <<>>])
    IN  [i \in 1..Len(held) |->
            IF held[i][1] = res_name
            THEN <<res_name,
                   push_operation(held[i][2], op_id, method, path, summary,
                                  description, parameters, has_body)>>
            ELSE held[i]]

\* lines 106-111
command_tree(f) ==
    [version |-> f.version, endpoint |-> f.endpoint,
     resources |-> into_values(f.resources)]

\* a start that takes a missing `paths` for an empty mapping
build_start_default_paths(d, f) ==
    LET major == IF d.info_version.some
                 THEN parse_major_version(d.info_version.v) ELSE None
    IN  [f EXCEPT !.endpoint = IF d.server_url.some THEN d.server_url.v
                               ELSE DefaultEndpoint,
                  !.version = IF major.some THEN major.v ELSE FallbackVersion,
                  !.pc = "path", !.pi = 1]

\* lines 8-34: endpoint, version, and the `paths` mapping or the error
build_start(d, f) ==
    LET major == IF d.info_version.some
                 THEN parse_major_version(d.info_version.v) ELSE None
        g == [f EXCEPT !.endpoint = IF d.server_url.some THEN d.server_url.v
                                    ELSE DefaultEndpoint,
                       !.version = IF major.some THEN major.v
                                   ELSE FallbackVersion]
    IN  IF ~d.paths.some THEN [g EXCEPT !.pc = "err"]
        ELSE [g EXCEPT !.pc = "path", !.pi = 1]

\* the head of the path loop, lines 36-45, and the return of lines 106-111
\* when the loop is over
build_next_path(d, f) ==
    IF f.pi > Len(d.paths.v)
    THEN [f EXCEPT !.pc = "ok", !.result = Some(command_tree(f))]
    ELSE LET entry == d.paths.v[f.pi]
         IN  IF ~entry.key.is_str THEN [f EXCEPT !.pc = "err"]
             ELSE IF ~entry.item.is_map THEN [f EXCEPT !.pc = "err"]
             ELSE [f EXCEPT !.pc = "method", !.mi = 1,
                            !.path = entry.key.s,
                            !.path_params =
                                collect_parameters(entry.item.parameters)]

\* the method loop up to the next method the path item defines (the
\* iterations of `None => continue` change nothing), lines 47-77
build_next_method(d, f) ==
    LET item == d.paths.v[f.pi].item
        defined == {j \in f.mi..Len(methods) : item.ops[methods[j]].some}
    IN  IF defined = {} THEN [f EXCEPT !.pc = "path", !.pi = @ + 1]
        ELSE LET j == CHOOSE j \in defined : \A k \in defined : j <= k
                 method == methods[j]
                 op == item.ops[method].v
             IN  IF ~op.is_map THEN [f EXCEPT !.pc = "err", !.mi = j]
                 ELSE [f EXCEPT
                         !.pc = "tag", !.mi = j, !.ti = 1,
                         !.op_id = IF op.operationId.some THEN op.operationId.v
                                   ELSE method \o <<"_">> \o f.path,
                         !.summary = op.summary,
                         !.description = op.description,
                         !.parameters =
                             merge_parameters(f.path_params,
                                              collect_parameters(op.parameters)),
                         !.has_body = op.requestBody,
                         !.tags = as_sequence_or_default(op.tags)]

\* a tag loop that ends after the first string tag
build_next_tag_first_only(d, f) ==
    IF f.ti > Len(f.tags) THEN [f EXCEPT !.pc = "method", !.mi = @ + 1]
    ELSE IF ~f.tags[f.ti].is_str THEN [f EXCEPT !.ti = @ + 1]
    ELSE [f EXCEPT
            !.ti = Len(f.tags) + 1,
            !.resources =
                insert_operation(@, f.tags[f.ti].s, f.op_id, methods[f.mi],
                                 f.path, f.summary, f.description,
                                 f.parameters, f.has_body)]

\* one iteration of the tag loop, lines 79-102
build_next_tag(d, f) ==
    IF f.ti > Len(f.tags) THEN [f EXCEPT !.pc = "method", !.mi = @ + 1]
    ELSE IF ~f.tags[f.ti].is_str THEN [f EXCEPT !.ti = @ + 1]
    ELSE [f EXCEPT
            !.ti = @ + 1,
            !.resources =
                insert_operation(@, f.tags[f.ti].s, f.op_id, methods[f.mi],
                                 f.path, f.summary, f.description,
                                 f.parameters, f.has_body)]

build_step(d, f) ==
    CASE f.pc = "start" -> build_start(d, f)
      [] f.pc = "path" -> build_next_path(d, f)
      [] f.pc = "method" -> build_next_method(d, f)
      [] f.pc = "tag" -> build_next_tag(d, f)

RECURSIVE build_run(_, _)
build_run(d, f) ==
    IF f.pc \in {"ok", "err"} THEN f ELSE build_run(d, build_step(d, f))

\* build_command_tree(doc): Some(tree) for Ok(tree), None for Err
build_command_tree(d) == build_run(d, build_enter).result

----------------------------------------------------------------------------
(* Specification of normalize_name on its own. *)

\* the characters of the input strings: a lowercase and an uppercase ASCII
\* letter, a digit, the dash itself, a symbol, and a non-ASCII letter
NormAlphabet == {"a", "Z", "7", "-", "_", "U+00E9"}

StringsUpTo(alphabet, n) == UNION {[1..k -> alphabet] : k \in 0..n}

NoFile == [written |-> "no", content |-> None]

BuildIdle ==
    /\ pc = "idle"
    /\ doc = None
    /\ frame = None
    /\ tree = None
    /\ json = None
    /\ file = NoFile

NormIdle ==
    /\ ninput = <<>>
    /\ nout = None

NameIdle == res = [name |-> <<>>, display_name |-> <<>>, ops |-> <<>>]

MergeIdle ==
    /\ mbase = <<>>
    /\ mover = <<>>
    /\ mout = None

CollectIdle ==
    /\ cvalue = [kind |-> "absent", items |-> <<>>]
    /\ cout = None

SearchIdle == uframe = None

NormInit ==
    /\ ninput \in StringsUpTo(NormAlphabet, MaxLen)
    /\ nout = None
    /\ BuildIdle
    /\ NameIdle
    /\ MergeIdle
    /\ CollectIdle
    /\ SearchIdle

CallNormalizeName ==
    /\ nout = None
    /\ nout' = Some(normalize_name(ninput))
    /\ UNCHANGED <<ninput, buildVars, nameVars, mergeVars,
                   collectVars, searchVars>>

NormNext == CallNormalizeName

SpecNorm == NormInit /\ [][NormNext]_vars

----------------------------------------------------------------------------
(* Claims about normalize_name, checked under SpecNorm. *)

IsSlug(s) ==
    /\ \A i \in 1..Len(s) : s[i] \in LowerChars \cup DigitChars \cup {"-"}
    /\ Len(s) > 0 => s[1] # "-" /\ s[Len(s)] # "-"
    /\ \A i \in 1..(Len(s) - 1) : ~(s[i] = "-" /\ s[i + 1] = "-")

\* C7: normalize_name returns, for every input string (the empty one, one of
\* symbols only and one with non-ASCII letters included), a string of
\* lowercase ASCII letters, digits and '-' only, with no leading '-', no
\* trailing '-' and no two consecutive '-'; the result may be empty.
C7_NormalizeNameIsSlug == nout.some => IsSlug(nout.v)

\* C7's case: symbols, an uppercase letter and a non-ASCII letter in one
\* input, trimmed and collapsed by the call.
C7_Witness ==
    /\ ninput = <<"_", "Z", "U+00E9", "-">>
    /\ nout = Some(<<"z">>)

\* C7's other case: an input of symbols only gives the empty slug.
C7_WitnessEmpty ==
    /\ ninput = <<"_", "-", "U+00E9">>
    /\ nout = Some(<<>>)

----------------------------------------------------------------------------
(* Specification of unique_op_name: operations added to one Resource. *)

S_DNS == <<"D", "N", "S">>
S_dns == <<"d", "n", "s">>
S_path_a == <<"/", "a">>

\* the operation identifiers added: all normalize to a name of the candidate
\* sequence of "get" under method get
NameOpIds ==
    {S_get, <<"G", "e", "t">>, <<"g", "e", "t", "_", "g", "e", "t">>,
     <<"g", "e", "t", "-", "g", "e", "t", "-", "2">>}

NameMethods == {S_get, S_post}

NameInit ==
    /\ res = [name |-> S_dns, display_name |-> S_DNS, ops |-> <<>>]
    /\ BuildIdle
    /\ NormIdle
    /\ MergeIdle
    /\ CollectIdle
    /\ SearchIdle

AddOperation(op_id, method) ==
    /\ Len(res.ops) < MaxOps
    /\ res' = push_operation(res, op_id, method, S_path_a, None, None,
                             <<>>, FALSE)
    /\ UNCHANGED <<buildVars, normVars, mergeVars, collectVars, searchVars>>

NameNext == \E op_id \in NameOpIds, method \in NameMethods :
                AddOperation(op_id, method)

SpecName == NameInit /\ [][NameNext]_vars

----------------------------------------------------------------------------
(* Claims about unique_op_name, checked under SpecName. *)

\* str::to_lowercase on the method names
to_lowercase(s) == [i \in 1..Len(s) |-> to_ascii_lowercase(s[i])]

\* the candidate sequence b, b-m, b-m-2, b-m-3, ...
Candidate(b, m, k) ==
    IF k = 0 THEN b
    ELSE IF k = 1 THEN b \o <<"-">> \o m
    ELSE b \o <<"-">> \o m \o <<"-">> \o ToDecimal(k)

FirstFree(b, m, used) ==
    LET k == CHOOSE k \in 0..(Cardinality(used) + 1) :
                 /\ Candidate(b, m, k) \notin used
                 /\ \A j \in 0..(k - 1) : Candidate(b, m, j) \in used
    IN  Candidate(b, m, k)

NamesOf(ops) == [i \in 1..Len(ops) |-> ops[i].name]

KeysOf(ops) ==
    [i \in 1..Len(ops) |-> <<normalize_name(ops[i].display_name), ops[i].method>>]

S_GET == <<"G", "E", "T">>
S_POST == <<"P", "O", "S", "T">>
S_get_post == <<"g", "e", "t", "-", "p", "o", "s", "t">>
S_get_get == <<"g", "e", "t", "-", "g", "e", "t">>
S_get_get_2 == <<"g", "e", "t", "-", "g", "e", "t", "-", "2">>

\* C3: an Operation with base slug b and lowercase method m added to a
\* Resource is named by the first candidate of b, b-m, b-m-2, b-m-3, ... that
\* no earlier Operation of the Resource has; and base "get" added under GET,
\* POST, GET to the empty Resource gives "get", "get-post", "get-get", a
\* further GET "get-get-2".
C3_FirstFreeCandidate ==
    /\ \A i \in 1..Len(res.ops) :
          res.ops[i].name =
              FirstFree(normalize_name(res.ops[i].display_name),
                        to_lowercase(res.ops[i].method),
                        {res.ops[j].name : j \in 1..(i - 1)})
    /\ \A n \in 3..Len(res.ops) :
          SubSeq(KeysOf(res.ops), 1, 3) =
              <<<<S_get, S_GET>>, <<S_get, S_POST>>, <<S_get, S_GET>>>>
          => /\ SubSeq(NamesOf(res.ops), 1, 3) = <<S_get, S_get_post, S_get_get>>
             /\ (n >= 4 /\ KeysOf(res.ops)[4] = <<S_get, S_GET>>)
                    => res.ops[4].name = S_get_get_2

\* C3's case: GET, POST, GET, GET with base "get" added to the empty Resource.
C3_Witness ==
    /\ Len(res.ops) = 4
    /\ KeysOf(res.ops) =
          <<<<S_get, S_GET>>, <<S_get, S_POST>>, <<S_get, S_GET>>, <<S_get, S_GET>>>>
    /\ NamesOf(res.ops) = <<S_get, S_get_post, S_get_get, S_get_get_2>>

----------------------------------------------------------------------------
(* Specification of merge_parameters on its own. *)

S_id == <<"i", "d">>
S_zone == <<"z", "o", "n", "e">>
S_path == <<"p", "a", "t", "h">>
S_query == <<"q", "u", "e", "r", "y">>
S_string == <<"s", "t", "r", "i", "n", "g">>
S_integer == <<"i", "n", "t", "e", "g", "e", "r">>
S_text == <<"t", "e", "x", "t">>

MergeKeys == {<<S_id, S_path>>, <<S_id, S_query>>, <<S_zone, S_path>>}

\* each key in two forms that differ in every other field
MergeParamDefs ==
    {param_def(k[1], k[2], FALSE, FALSE, Some(S_string), None) : k \in MergeKeys}
    \cup
    {param_def(k[1], k[2], TRUE, TRUE, Some(S_integer), Some(S_text)) : k \in MergeKeys}

MergeInit ==
    /\ mbase \in StringsUpTo(MergeParamDefs, MaxParams)
    /\ mover \in StringsUpTo(MergeParamDefs, MaxParams)
    /\ mout = None
    /\ BuildIdle
    /\ NormIdle
    /\ NameIdle
    /\ CollectIdle
    /\ SearchIdle

CallMergeParameters ==
    /\ mout = None
    /\ mout' = Some(merge_parameters(mbase, mover))
    /\ UNCHANGED <<mbase, mover, buildVars, normVars, nameVars,
                   collectVars, searchVars>>

MergeNext == CallMergeParameters

SpecMerge == MergeInit /\ [][MergeNext]_vars

----------------------------------------------------------------------------
(* Claims about merge_parameters, checked under SpecMerge. *)

ParamKeys(params) == {param_key(params[i]) : i \in 1..Len(params)}

\* the last entry of a list with the key
LastWithKey(params, key) ==
    LET at == {i \in 1..Len(params) : param_key(params[i]) = key}
    IN  params[CHOOSE i \in at : \A j \in at : j <= i]

\* C4: merge_parameters returns exactly one ParamDef for each (name,
\* location) key of either list; for a key of the operation-level list it is
\* that list's entry (its last one with the key) with all its fields, for a
\* key of the path-level list alone it is that list's entry; so path-level
\* {id, path, required = false} and operation-level {id, path, required =
\* true} give one parameter, with required = true.
C4_MergeOverride ==
    mout.some =>
    /\ ParamKeys(mout.v) = ParamKeys(mbase) \cup ParamKeys(mover)
    /\ Len(mout.v) = Cardinality(ParamKeys(mbase) \cup ParamKeys(mover))
    /\ \A i \in 1..Len(mout.v) :
          mout.v[i] =
              IF param_key(mout.v[i]) \in ParamKeys(mover)
              THEN LastWithKey(mover, param_key(mout.v[i]))
              ELSE LastWithKey(mbase, param_key(mout.v[i]))
    /\ ( /\ Len(mbase) = 1 /\ param_key(mbase[1]) = <<S_id, S_path>>
         /\ ~mbase[1].required
         /\ Len(mover) = 1 /\ param_key(mover[1]) = <<S_id, S_path>>
         /\ mover[1].required )
       => Len(mout.v) = 1 /\ mout.v[1].required

\* C4's case: the path-level and the operation-level list both declare
\* (id, path), with different fields, and each has a key of its own.
C4_Witness ==
    /\ mout.some
    /\ Len(mbase) = 2 /\ Len(mover) = 2
    /\ <<S_id, S_path>> \in ParamKeys(mbase) \cap ParamKeys(mover)
    /\ LastWithKey(mbase, <<S_id, S_path>>) # LastWithKey(mover, <<S_id, S_path>>)
    /\ ParamKeys(mbase) \ ParamKeys(mover) # {}
    /\ ParamKeys(mover) \ ParamKeys(mbase) # {}
    /\ Len(mout.v) = 3

----------------------------------------------------------------------------
(* The documents given to the generator. *)

S_list == <<"l", "i", "s", "t">>
S_Zones == <<"Z", "o", "n", "e", "s">>
S_D_N_S == <<"D", ".", "N", ".", "S">>
S_d_n_s == <<"d", "-", "n", "-", "s">>
S_Zones_slug == <<"z", "o", "n", "e", "s">>

\* an operation value that is a mapping
Op(operationId, summary, parameters, requestBody, tags) ==
    [is_map |-> TRUE, operationId |-> operationId, summary |-> summary,
     description |-> None, parameters |-> parameters,
     requestBody |-> requestBody, tags |-> tags]

\* an operation value that is no mapping
NotAnOp ==
    [is_map |-> FALSE, operationId |-> None, summary |-> None,
     description |-> None, parameters |-> Absent,
     requestBody |-> FALSE, tags |-> Absent]

\* the operations of a path item, by method
Ops(get, post, put, delete) ==
    [m \in Range(methods) |->
        CASE m = S_get -> get
          [] m = S_post -> post
          [] m = S_put -> put
          [] m = S_delete -> delete
          [] OTHER -> None]

PathItem(parameters, ops) ==
    [is_map |-> TRUE, parameters |-> parameters, ops |-> ops]

NotAPathItem ==
    [is_map |-> FALSE, parameters |-> Absent, ops |-> Ops(None, None, None, None)]

IdOptional ==
    RawParam(Some(S_id), Some(S_path), None, None, Schema(Some(S_string), None))

IdRequired ==
    RawParam(Some(S_id), Some(S_path), Some(TRUE), Some(S_text),
             Schema(Some(S_integer), None))

ZoneQuery ==
    RawParam(Some(S_zone), Some(S_query), None, None,
             Schema(Some(S_array), Some(S_string)))

NoName ==
    RawParam(None, Some(S_query), Some(TRUE), None, NoSchema)

ListDNS == Op(Some(S_list), Some("List"), Absent, FALSE, SeqOf(<<Str(S_DNS)>>))

\* one tagged operation
ItemOne == PathItem(Absent, Ops(Some(ListDNS), None, None, None))

\* get and post with the same operationId and tag, a path-level parameter
\* that get overrides, and a request body on post
ItemGetPost ==
    PathItem(SeqOf(<<IdOptional, NoName, NotAMapping>>),
             Ops(Some(Op(Some(S_list), None, SeqOf(<<ZoneQuery, IdRequired>>),
                         FALSE, SeqOf(<<Str(S_DNS)>>))),
                 Some(Op(Some(S_list), None, Absent, TRUE, SeqOf(<<Str(S_DNS)>>))),
                 None, None))

\* an operation with two tags
ItemTwoTags ==
    PathItem(Absent,
             Ops(Some(Op(Some(S_list), None, SeqOf(<<IdRequired>>), TRUE,
                         SeqOf(<<Str(S_Zones), Str(S_DNS)>>))),
                 None, None, None))

\* no operationId, and tag texts that normalize to the same slugs
ItemSlugs ==
    PathItem(Absent,
             Ops(Some(Op(None, None, Absent, FALSE,
                         SeqOf(<<Str(S_dns), Str(S_D_N_S), Str(S_d_n_s)>>))),
                 None, None, None))

\* operations without tags (absent, no sequence, empty), then a tagged one
ItemNoTags ==
    PathItem(Absent,
             Ops(Some(Op(Some(S_list), None, Absent, TRUE, Absent)),
                 Some(Op(Some(S_list), None, Absent, FALSE, NotSeq)),
                 Some(Op(Some(S_list), None, Absent, FALSE, SeqOf(<<>>))),
                 Some(ListDNS)))

\* a tag that is no string, and the same tag twice
ItemOddTags ==
    PathItem(Absent,
             Ops(None,
                 Some(Op(Some(S_list), None, Absent, FALSE,
                         SeqOf(<<NotStr, Str(S_DNS), Str(S_DNS)>>))),
                 None, None))

\* an operation that is no mapping
ItemBadOp == PathItem(Absent, Ops(Some(ListDNS), Some(NotAnOp), None, None))

PathItems ==
    {ItemOne, ItemGetPost, ItemTwoTags, ItemSlugs, ItemNoTags, ItemOddTags,
     ItemBadOp, NotAPathItem}

\* the path keys: "/a", "/b", ...
PathKeys == {<<"/", Lower[i]>> : i \in 1..MaxPaths}

PathEntries ==
    {[key |-> Str(k), item |-> it] : k \in PathKeys, it \in PathItems}
    \cup {[key |-> NotStr, item |-> ItemOne]}

\* the entries of a `paths` mapping, in document order: the keys of a mapping
\* are distinct
PathLists ==
    {ps \in StringsUpTo(PathEntries, MaxPaths) :
        \A i, j \in 1..Len(ps) : i # j => ps[i].key # ps[j].key}

DocMetas ==
    {[server_url |-> None, info_version |-> None],
     [server_url |-> Some("https://api.example.com/v9"),
      info_version |-> Some(<<"9", ".", "1">>)]}

\* info.version texts: every short text of digits, '.', '+' and a letter,
\* and longer ones around 2^32 and with a '-'
VersionAlphabet == {"7", "0", ".", "+", "a"}

VersionStrings ==
    StringsUpTo(VersionAlphabet, MaxVer)
    \cup
    {<<"4", "2", "9", "4", "9", "6", "7", "2", "9", "5">>,
     <<"4", "2", "9", "4", "9", "6", "7", "2", "9", "6">>,
     <<"+", "4", "2", "9", "4", "9", "6", "7", "2", "9", "5", ".", "0">>,
     <<"0", "4", "2", "9", "4", "9", "6", "7", "2", "9", "6", ".", "0">>,
     <<"0", "0", "0", "0", "0", "0", "0", "0", "0", "0", "7">>,
     <<"9", "9", "9", "9", "9", "9", "9", "9", "9", "9", "9">>,
     <<"-", "7">>,
     <<"-", "7", ".", "0">>}

\* documents that differ in info.version, without `paths` or with no path
VersionDocs ==
    {[server_url |-> None, info_version |-> Some(v), paths |-> ps] :
        v \in VersionStrings, ps \in {None, Some(<<>>)}}

Docs ==
    {[server_url |-> m.server_url, info_version |-> m.info_version, paths |-> ps] :
        m \in DocMetas, ps \in {None} \cup {Some(l) : l \in PathLists}}
    \cup VersionDocs

----------------------------------------------------------------------------
(* gen_command_tree's run(), gen_command_tree.rs 12-32, around the build. *)

\* serde_json::to_string_pretty(&tree): the JSON text of the tree, which
\* nothing in the program reads again
to_string_pretty(t) == [json_of |-> t]

Init ==
    /\ pc = "read"
    /\ doc = None
    /\ frame = None
    /\ tree = None
    /\ json = None
    /\ file = NoFile
    /\ NormIdle
    /\ NameIdle
    /\ MergeIdle
    /\ CollectIdle
    /\ SearchIdle

\* lines 25-27: the file is read and parsed to a document
ReadDocument ==
    /\ pc = "read"
    /\ \E d \in Docs : doc' = Some(d)
    /\ pc' = "build"
    /\ UNCHANGED <<frame, tree, json, file, normVars, nameVars, mergeVars,
                   collectVars, searchVars>>

\* lines 25-27: fs::read_to_string or serde_yaml::from_str fails
ReadFails ==
    /\ pc = "read"
    /\ pc' = "error"
    /\ UNCHANGED <<doc, frame, tree, json, file, normVars, nameVars, mergeVars,
                   collectVars, searchVars>>

\* line 28 and openapi.rs 8-34: build_command_tree is entered
BuildStart ==
    /\ pc = "build"
    /\ frame = None
    /\ frame' = Some(build_start(doc.v, build_enter))
    /\ UNCHANGED <<pc, doc, tree, json, file, normVars, nameVars, mergeVars,
                   collectVars, searchVars>>

\* openapi.rs 36-45 and 106-111
NextPath ==
    /\ pc = "build"
    /\ frame.some
    /\ frame.v.pc = "path"
    /\ frame' = Some(build_next_path(doc.v, frame.v))
    /\ UNCHANGED <<pc, doc, tree, json, file, normVars, nameVars, mergeVars,
                   collectVars, searchVars>>

\* openapi.rs 47-77
NextMethod ==
    /\ pc = "build"
    /\ frame.some
    /\ frame.v.pc = "method"
    /\ frame' = Some(build_next_method(doc.v, frame.v))
    /\ UNCHANGED <<pc, doc, tree, json, file, normVars, nameVars, mergeVars,
                   collectVars, searchVars>>

\* openapi.rs 79-102
NextTag ==
    /\ pc = "build"
    /\ frame.some
    /\ frame.v.pc = "tag"
    /\ frame' = Some(build_next_tag(doc.v, frame.v))
    /\ UNCHANGED <<pc, doc, tree, json, file, normVars, nameVars, mergeVars,
                   collectVars, searchVars>>

\* line 28: build_command_tree returned Ok(tree)
BuildReturns ==
    /\ pc = "build"
    /\ frame.some
    /\ frame.v.pc = "ok"
    /\ tree' = frame.v.result
    /\ pc' = "serialize"
    /\ UNCHANGED <<doc, frame, json, file, normVars, nameVars, mergeVars,
                   collectVars, searchVars>>

\* line 28: build_command_tree returned Err, and `?` returns it from run()
BuildFails ==
    /\ pc = "build"
    /\ frame.some
    /\ frame.v.pc = "err"
    /\ pc' = "error"
    /\ UNCHANGED <<doc, frame, tree, json, file, normVars, nameVars, mergeVars,
                   collectVars, searchVars>>

\* line 29
Serialize ==
    /\ pc = "serialize"
    /\ json' = Some(to_string_pretty(tree.v))
    /\ pc' = "write"
    /\ UNCHANGED <<doc, frame, tree, file, normVars, nameVars, mergeVars,
                   collectVars, searchVars>>

\* lines 30-31: fs::write succeeds
WriteFile ==
    /\ pc = "write"
    /\ file' = [written |-> "all", content |-> json]
    /\ pc' = "done"
    /\ UNCHANGED <<doc, frame, tree, json, normVars, nameVars, mergeVars,
                   collectVars, searchVars>>

\* line 30: fs::write fails, before or after the file was created
WriteFails ==
    /\ pc = "write"
    /\ file' \in {file, [written |-> "part", content |-> None]}
    /\ pc' = "error"
    /\ UNCHANGED <<doc, frame, tree, json, normVars, nameVars, mergeVars,
                   collectVars, searchVars>>

Next ==
    \/ ReadDocument
    \/ ReadFails
    \/ BuildStart
    \/ NextPath
    \/ NextMethod
    \/ NextTag
    \/ BuildReturns
    \/ BuildFails
    \/ Serialize
    \/ WriteFile
    \/ WriteFails

Spec == Init /\ [][Next]_vars

----------------------------------------------------------------------------
(* Claims about build_command_tree and the generator, checked under Spec. *)

\* the Resources built so far, in the order of the map
ResourcesSoFar == IF frame.some THEN into_values(frame.v.resources) ELSE <<>>

\* the Resources of the tree returned
ResourcesOfTree == IF tree.some THEN tree.v.resources ELSE <<>>

Distinct(seq) == \A i, j \in 1..Len(seq) : i # j => seq[i] # seq[j]

ResourceNames(rs) == [i \in 1..Len(rs) |-> rs[i].name]

\* the string tags of an operation value, in order
StringTags(op) ==
    IF op.tags.kind = "seq" THEN SelectSeq(op.tags.items, LAMBDA t : t.is_str)
    ELSE <<>>

\* the (entry index, method) pairs of the operations of a document that are
\* mappings
OpsOfDoc(d) ==
    {<<i, m>> \in (1..Len(d.paths.v)) \X Range(methods) :
        /\ d.paths.v[i].item.ops[m].some
        /\ d.paths.v[i].item.ops[m].v.is_map}

\* C1: after every insertion of build_command_tree, the Operations of every
\* Resource have pairwise distinct names; so have those of the tree returned.
C1_OperationNamesDistinct ==
    /\ \A i \in 1..Len(ResourcesSoFar) : Distinct(NamesOf(ResourcesSoFar[i].ops))
    /\ \A i \in 1..Len(ResourcesOfTree) : Distinct(NamesOf(ResourcesOfTree[i].ops))

\* C1's case: three Operations of one Resource with the same base slug and
\* method, so that the base name and the method-qualified name were taken.
C1_Witness ==
    \E i \in 1..Len(ResourcesSoFar) :
        LET ops == ResourcesSoFar[i].ops
        IN  /\ Len(ops) >= 3
            /\ \A j \in 1..3 : KeysOf(ops)[j] = KeysOf(ops)[1]

\* C2: the resources of the tree, and of the map at every step, have pairwise
\* distinct names; each is held under the slug of its display_name, so tag
\* texts with one slug ("DNS" and "dns", "D.N.S" and "d-n-s") share one
\* Resource, which keeps the first tag text seen.
C2_ResourceNamesDistinct ==
    /\ Distinct(ResourceNames(ResourcesSoFar))
    /\ Distinct(ResourceNames(ResourcesOfTree))
    /\ \A i \in 1..Len(ResourcesSoFar) :
          /\ frame.v.resources[i][1] = ResourcesSoFar[i].name
          /\ ResourcesSoFar[i].name = normalize_name(ResourcesSoFar[i].display_name)
    /\ tree.some =>
          \A o \in OpsOfDoc(doc.v) :
              \A t \in Range(StringTags(doc.v.paths.v[o[1]].item.ops[o[2]].v)) :
                  Cardinality({i \in 1..Len(ResourcesOfTree) :
                                  ResourcesOfTree[i].name = normalize_name(t.s)}) = 1

\* C2's case: a document with the tags "DNS", "dns", "D.N.S" and "d-n-s"
\* compiled to a tree of two Resources.
C2_Witness ==
    /\ tree.some
    /\ \E i, j \in 1..Len(doc.v.paths.v) :
          /\ doc.v.paths.v[i].item = ItemOne
          /\ doc.v.paths.v[j].item = ItemSlugs
    /\ ResourceNames(ResourcesOfTree) = <<S_d_n_s, S_dns>>

\* the operation value at entry i, method m of a document
OpAt(d, o) == d.paths.v[o[1]].item.ops[o[2]].v

\* the places <<i, j>> of the Operations of a Resource list that come from
\* the operation at path `path` under `method` (lowercase)
EntriesOf(rs, path, method) ==
    UNION {{<<i, j>> : j \in {j \in 1..Len(rs[i].ops) :
                                /\ rs[i].ops[j].path = path
                                /\ rs[i].ops[j].method = to_uppercase(method)}} :
              i \in 1..Len(rs)}

\* how many of the tags have the slug
TagsWithSlug(tags, slug) ==
    Cardinality({k \in 1..Len(tags) : normalize_name(tags[k].s) = slug})

\* the fan-out of one operation of the document into a Resource list, for the
\* string tags `tags` of it that were visited
FanOut(rs, d, o, tags) ==
    LET entry == d.paths.v[o[1]]
        op == OpAt(d, o)
        at == EntriesOf(rs, entry.key.s, o[2])
    IN  /\ Cardinality(at) = Len(tags)
        /\ \A i \in 1..Len(rs) :
              Cardinality({e \in at : e[1] = i}) = TagsWithSlug(tags, rs[i].name)
        /\ \A k \in 1..Len(tags) :
              \E i \in 1..Len(rs) : rs[i].name = normalize_name(tags[k].s)
        /\ \A e \in at :
              LET x == rs[e[1]].ops[e[2]]
              IN  /\ x.display_name =
                        (IF op.operationId.some THEN op.operationId.v
                         ELSE o[2] \o <<"_">> \o entry.key.s)
                  /\ x.parameters =
                        merge_parameters(collect_parameters(entry.item.parameters),
                                         collect_parameters(op.parameters))
                  /\ x.has_body = op.requestBody

\* C5: an operation whose tags hold k string tags adds exactly k Operation
\* entries to the tree, one per tag, each to the Resource named by the slug of
\* that tag, all with the same method, path, display_name, parameters and
\* has_body. It holds of the tree returned, and, during the tag loop, of the
\* tags visited so far.
C5_TagFanOut ==
    /\ tree.some =>
          \A o \in OpsOfDoc(doc.v) :
              FanOut(ResourcesOfTree, doc.v, o, StringTags(OpAt(doc.v, o)))
    /\ (frame.some /\ frame.v.pc = "tag") =>
          FanOut(ResourcesSoFar, doc.v, <<frame.v.pi, methods[frame.v.mi]>>,
                 SelectSeq(SubSeq(frame.v.tags, 1, frame.v.ti - 1),
                           LAMBDA t : t.is_str))

\* C5's case: the operation tagged ["Zones", "DNS"], with a parameter and a
\* request body, compiled to one entry under dns and one under zones.
C5_Witness ==
    /\ tree.some
    /\ Len(doc.v.paths.v) = 1
    /\ doc.v.paths.v[1].item = ItemTwoTags
    /\ ResourceNames(ResourcesOfTree) = <<S_dns, S_Zones_slug>>
    /\ \A i \in 1..2 :
          /\ Len(ResourcesOfTree[i].ops) = 1
          /\ ResourcesOfTree[i].ops[1].has_body
          /\ Len(ResourcesOfTree[i].ops[1].parameters) = 1

\* an operation with no tags: the field absent, no sequence, or empty
NoTags(op) == op.is_map /\ (op.tags.kind # "seq" \/ op.tags.items = <<>>)

\* the next step of the build works on an operation with no tags: the method
\* loop is about to read it, or the tag loop is at it
AtNoTagsOperation ==
    /\ pc = "build"
    /\ frame.some
    /\ \/ /\ frame.v.pc = "method"
          /\ LET item == doc.v.paths.v[frame.v.pi].item
                 defined == {j \in frame.v.mi..Len(methods) :
                                item.ops[methods[j]].some}
             IN  /\ defined # {}
                 /\ NoTags(item.ops[methods[CHOOSE j \in defined :
                                        \A k \in defined : j <= k]].v)
       \/ /\ frame.v.pc = "tag"
          /\ NoTags(OpAt(doc.v, <<frame.v.pi, methods[frame.v.mi]>>))

\* C6: an operation with no tags (tags absent, no sequence, or empty) is
\* dropped: the steps that work on it leave the Resources as they are and do
\* not end the build in an error, and the tree returned has no Operation of it
\* and no Resource but those of the string tags of the document.
C6_NoTagsDropped ==
    /\ [][AtNoTagsOperation =>
            /\ frame'.v.resources = frame.v.resources
            /\ frame'.v.pc # "err"]_vars
    /\ [](tree.some =>
            /\ \A o \in OpsOfDoc(doc.v) :
                  NoTags(OpAt(doc.v, o)) =>
                      EntriesOf(ResourcesOfTree, doc.v.paths.v[o[1]].key.s, o[2]) = {}
            /\ Range(ResourceNames(ResourcesOfTree)) =
                  UNION {{normalize_name(t.s) : t \in Range(StringTags(OpAt(doc.v, o)))} :
                            o \in OpsOfDoc(doc.v)})

\* C6's case: the tag loop is at an operation whose tags are no sequence,
\* after one with the tags absent, with Resources already in the map.
C6_Witness ==
    /\ pc = "build"
    /\ frame.some
    /\ frame.v.pc = "tag"
    /\ frame.v.pi = 2
    /\ doc.v.paths.v[2].item = ItemNoTags
    /\ frame.v.mi = 2
    /\ NoTags(OpAt(doc.v, <<2, S_post>>))
    /\ Len(frame.v.resources) > 0

\* the operations of a document that are mappings, in the order the loops
\* visit them: by path entry, then by method
OpSeq(d) ==
    LET n == Len(methods)
        all == [k \in 1..(Len(d.paths.v) * n) |->
                   <<((k - 1) \div n) + 1, methods[((k - 1) % n) + 1]>>]
    IN  SelectSeq(all, LAMBDA o : o \in OpsOfDoc(d))

\* the place in OpSeq of the first operation tagged with the slug, 0 if none
FirstTagged(d, slug) ==
    LET ops == OpSeq(d)
        at == {k \in 1..Len(ops) :
                  \E t \in Range(StringTags(OpAt(d, ops[k]))) :
                      normalize_name(t.s) = slug}
    IN  IF at = {} THEN 0 ELSE CHOOSE k \in at : \A l \in at : k <= l

\* C8 as claimed: the resources of the tree are in the order in which their
\* tags are first seen: if the first operation tagged A is visited before the
\* first operation tagged B, A precedes B.
C8_FirstSeenOrder ==
    tree.some =>
        \A x, y \in 1..Len(ResourcesOfTree) :
            FirstTagged(doc.v, ResourcesOfTree[x].name)
                < FirstTagged(doc.v, ResourcesOfTree[y].name)
            => x < y

\* C8 as amended: the resources of the tree are in ascending order of their
\* names (the byte order of String), whatever the order in which their tags
\* are first seen; so is the map at every step of the build.
C8_SortedByName ==
    /\ \A i \in 1..(Len(ResourcesOfTree) - 1) :
          StrLess(ResourcesOfTree[i].name, ResourcesOfTree[i + 1].name)
    /\ \A i \in 1..(Len(ResourcesSoFar) - 1) :
          StrLess(ResourcesSoFar[i].name, ResourcesSoFar[i + 1].name)

\* C8's case: the tree of a document in which the tag of the second Resource
\* is first seen at an earlier operation than the tag of the first.
C8_Witness ==
    /\ tree.some
    /\ Len(ResourcesOfTree) = 2
    /\ FirstTagged(doc.v, ResourcesOfTree[2].name)
          < FirstTagged(doc.v, ResourcesOfTree[1].name)

\* the lists that hold the same path entries in another order
Reordered(ps) ==
    {[i \in 1..Len(ps) |-> ps[f[i]]] : f \in Permutations(1..Len(ps))}

\* C9 as claimed: two documents with the same path entries, listed in a
\* different order, compile to the same tree: the same resource order, the
\* same order of Operations in every Resource, the same Operation names.
C9_PathOrderIndependent ==
    pc = "serialize" =>
        \A ps \in Reordered(doc.v.paths.v) :
            build_command_tree([doc.v EXCEPT !.paths = Some(ps)]) = tree

\* the build has returned an error
BuildFailed == frame.some /\ frame.v.pc = "err"

\* C10: for a document without a `paths` mapping build_command_tree returns an
\* error and no tree, and the generator goes to its error state without
\* writing the output file; whenever the build fails there is no tree and no
\* file; and the file is written only from the JSON text of the complete tree
\* the build returned.
C10_AllOrNothing ==
    /\ (doc.some /\ ~doc.v.paths.some) =>
          /\ pc \in {"build", "error"}
          /\ frame.some => (frame.v.pc = "err" /\ frame.v.result = None)
          /\ build_command_tree(doc.v) = None
    /\ (BuildFailed /\ pc = "build") => (ENABLED BuildFails /\ ~ENABLED BuildReturns)
    /\ BuildFailed =>
          /\ frame.v.result = None
          /\ tree = None
          /\ json = None
          /\ file = NoFile
          /\ pc \in {"build", "error"}
    /\ file # NoFile =>
          /\ pc \in {"done", "error"}
          /\ tree.some
          /\ frame.v.pc = "ok"
          /\ frame.v.pi > Len(doc.v.paths.v)
          /\ tree = build_command_tree(doc.v)
          /\ json = Some(to_string_pretty(tree.v))
          /\ file.written = "all" => file.content = json
    /\ pc = "done" => file.written = "all"

\* C10's case: the generator in its error state after the build failed on a
\* document without `paths`.
C10_Witness ==
    /\ pc = "error"
    /\ doc.some
    /\ ~doc.v.paths.some
    /\ BuildFailed
    /\ file = NoFile

----------------------------------------------------------------------------
(* collect_parameters on its own: every `parameters` value made of the     *)
(* items below, which differ in what they lack.                            *)
(***************************************************************************)

\* the schemas: none, a mapping without type, a scalar, an array without
\* and with items.type, and scalars that have an items.type all the same
CollectSchemas ==
    {NoSchema,
     Schema(None, None),
     Schema(Some(S_string), None),
     Schema(Some(S_array), None),
     Schema(Some(S_array), Some(S_string)),
     Schema(Some(S_integer), Some(S_string)),
     Schema(None, Some(S_string))}

CollectItems ==
    {RawParam(Some(S_id), Some(S_path), None, None, schema) :
        schema \in CollectSchemas}
    \cup
    {RawParam(Some(S_zone), Some(S_query), Some(TRUE), Some(S_text), NoSchema),
     RawParam(Some(S_id), Some(S_query), Some(FALSE), None,
              Schema(Some(S_array), None)),
     NotAMapping,
     RawParam(None, Some(S_path), Some(TRUE), Some(S_text),
              Schema(Some(S_array), Some(S_string))),
     RawParam(Some(S_id), None, Some(TRUE), None, Schema(Some(S_string), None)),
     RawParam(None, None, None, None, NoSchema)}

CollectValues ==
    {Absent, NotSeq} \cup {SeqOf(items) : items \in StringsUpTo(CollectItems, MaxItems)}

CollectInit ==
    /\ cvalue \in CollectValues
    /\ cout = None
    /\ BuildIdle
    /\ NormIdle
    /\ NameIdle
    /\ MergeIdle
    /\ SearchIdle

CallCollectParameters ==
    /\ cout = None
    /\ cout' = Some(collect_parameters(cvalue))
    /\ UNCHANGED <<cvalue, buildVars, normVars, nameVars, mergeVars, searchVars>>

CollectNext == CallCollectParameters

SpecCollect == CollectInit /\ [][CollectNext]_vars

----------------------------------------------------------------------------
(* Claims about collect_parameters and parse_schema, checked under         *)
(* SpecCollect.                                                            *)
(***************************************************************************)

\* an item with both a string `name` and a string `in`
WellFormed(item) == item.is_map /\ item.name.some /\ item.loc.some

\* the well-formed items of the value given, in array order
Kept == SelectSeq(IF cvalue.kind = "seq" THEN cvalue.items ELSE <<>>, WellFormed)

IsArraySchema(schema) == schema.is_map /\ schema.type = Some(S_array)

\* C11: collect_parameters returns one ParamDef for each item that has both
\* a string `name` and a string `in`, in array order, and skips every other
\* item (no name, no in, not a mapping) without an error; the name,
\* location, required and description of each ParamDef are those of its own
\* item, whatever the other items are; required is false when the item has
\* no `required`, and list is false with no schema_type when it has no
\* `schema`.
C11_MalformedSkipped ==
    cout.some =>
    /\ Len(cout.v) = Len(Kept)
    /\ \A i \in 1..Len(cout.v) :
          /\ cout.v[i].name = Kept[i].name.v
          /\ cout.v[i].location = Kept[i].loc.v
          /\ cout.v[i].required = (Kept[i].required.some /\ Kept[i].required.v)
          /\ cout.v[i].description = Kept[i].description
          /\ ~Kept[i].schema.is_map
                => ~cout.v[i].list /\ cout.v[i].schema_type = None

\* C11's case: a well-formed item without `required` and without `schema`,
\* then a malformed item, then another well-formed item.
C11_Witness ==
    /\ cout.some
    /\ cvalue.kind = "seq" /\ Len(cvalue.items) = 3
    /\ WellFormed(cvalue.items[1])
    /\ ~cvalue.items[1].required.some /\ ~cvalue.items[1].schema.is_map
    /\ ~WellFormed(cvalue.items[2])
    /\ WellFormed(cvalue.items[3])
    /\ Len(cout.v) = 2

\* each kind of malformed item is skipped: not a mapping, no name, no in
C11_WitnessKinds ==
    /\ cout.some
    /\ cvalue.kind = "seq" /\ Len(cvalue.items) = 3
    /\ ~cvalue.items[1].is_map
    /\ cvalue.items[2].is_map /\ ~cvalue.items[2].name.some
    /\ cvalue.items[3].is_map /\ cvalue.items[3].name.some
    /\ ~cvalue.items[3].loc.some
    /\ cout.v = <<>>

\* C12: a parameter whose schema has type "array" gets list = true and the
\* schema_type items.type, or the marker "array" when there is no
\* items.type; list = true holds exactly when the schema's type is "array";
\* with a schema of another type, schema_type is the schema's scalar type.
C12_ArraySchema ==
    cout.some /\ Len(cout.v) = Len(Kept) =>
    \A i \in 1..Len(cout.v) :
        LET schema == Kept[i].schema
        IN  /\ cout.v[i].list <=> IsArraySchema(schema)
            /\ IsArraySchema(schema) =>
                  cout.v[i].schema_type =
                      IF schema.items_type.some THEN schema.items_type
                      ELSE Some(S_array)
            /\ schema.is_map /\ ~IsArraySchema(schema) =>
                  cout.v[i].schema_type = schema.type

\* C12's case: an array of strings, an array without items, and a scalar
\* schema that has an items.type.
C12_Witness ==
    /\ cout.some /\ Len(cout.v) = 3
    /\ cout.v[1].list /\ cout.v[1].schema_type = Some(S_string)
    /\ cout.v[2].list /\ cout.v[2].schema_type = Some(S_array)
    /\ ~cout.v[3].list /\ cout.v[3].schema_type = Some(S_integer)
    /\ Kept[3].schema.items_type.some

----------------------------------------------------------------------------
(* Claims about the version of the tree, checked under Spec. *)

\* the part of a text before its first '.'
BeforeFirstDot(s) ==
    LET k == CHOOSE k \in 0..Len(s) :
                 /\ \A i \in 1..k : s[i] # "."
                 /\ k < Len(s) => s[k + 1] = "."
    IN  SubSeq(s, 1, k)

AsciiDigits == {"0", "1", "2", "3", "4", "5", "6", "7", "8", "9"}

PurelyNumeric(s) == Len(s) > 0 /\ \A i \in 1..Len(s) : s[i] \in AsciiDigits

\* the number a text of digits writes is below 2^32
FitsU32(digits) == U32LessEq(strip_leading_zeros(digits), U32Max)

\* a text without the one '+' it may start with
Unsigned(s) == IF Len(s) > 0 /\ s[1] = "+" THEN Tail(s) ELSE s

\* the version the build has fixed once it is past its start
VersionFixed == frame.some /\ frame.v.pc # "start"

\* a failure of the build that `paths` explains: no paths mapping, a key
\* that is no string, a path item or an operation that is no mapping
PathsFailure ==
    \/ ~doc.v.paths.some
    \/ \E i \in 1..Len(doc.v.paths.v) :
          LET entry == doc.v.paths.v[i]
          IN  \/ ~entry.key.is_str
              \/ ~entry.item.is_map
              \/ \E j \in 1..Len(methods) :
                    /\ entry.item.ops[methods[j]].some
                    /\ ~entry.item.ops[methods[j]].v.is_map

\* C13 as stated: the version is the number written by the part of
\* info.version before the first '.', and the fallback 4 when info.version
\* is missing or no string, when that part is empty or not purely numeric,
\* or when its number does not fit in 32 bits; the build never fails for the
\* version.
C13_VersionPurelyNumeric ==
    /\ VersionFixed =>
          frame.v.version =
              IF doc.v.info_version.some
                 /\ PurelyNumeric(BeforeFirstDot(doc.v.info_version.v))
                 /\ FitsU32(BeforeFirstDot(doc.v.info_version.v))
              THEN strip_leading_zeros(BeforeFirstDot(doc.v.info_version.v))
              ELSE <<"4">>
    /\ tree.some => tree.v.version = frame.v.version
    /\ BuildFailed => PathsFailure

\* C13, amended: the same, where the part before the first '.' may start
\* with one '+' ahead of its digits: "+7.0" gives version 7.
C13_VersionOptionalPlus ==
    /\ VersionFixed =>
          frame.v.version =
              IF doc.v.info_version.some
                 /\ PurelyNumeric(Unsigned(BeforeFirstDot(doc.v.info_version.v)))
                 /\ FitsU32(Unsigned(BeforeFirstDot(doc.v.info_version.v)))
              THEN strip_leading_zeros(
                       Unsigned(BeforeFirstDot(doc.v.info_version.v)))
              ELSE <<"4">>
    /\ tree.some => tree.v.version = frame.v.version
    /\ BuildFailed => PathsFailure

\* C13's case: a tree whose version 7 is parsed from "07.a", ahead of a '.'.
C13_Witness ==
    /\ tree.some
    /\ doc.v.info_version = Some(<<"0", "7", ".", "a">>)
    /\ tree.v.version = <<"7">>

\* a tree with the fallback for a number one above the largest u32
C13_WitnessOverflow ==
    /\ tree.some
    /\ doc.v.info_version
          = Some(<<"4", "2", "9", "4", "9", "6", "7", "2", "9", "6">>)
    /\ tree.v.version = <<"4">>

\* a tree with the largest u32 as its version
C13_WitnessLargest ==
    /\ tree.some
    /\ tree.v.version = <<"4", "2", "9", "4", "9", "6", "7", "2", "9", "5">>

\* a tree with a version parsed from a text that starts with '+'
C13_WitnessPlus ==
    /\ tree.some
    /\ doc.v.info_version = Some(<<"+", "7", ".", "0">>)
    /\ tree.v.version = <<"7">>

----------------------------------------------------------------------------
(* unique_op_name step by step, openapi.rs 224-243: one step for each test  *)
(* of `existing`, so that the loop of lines 235-242 is a loop of the model. *)
(* The frame holds the position, the locals and, in `tested`, the names     *)
(* tested against `existing` so far.                                       *)
(***************************************************************************)

\* lines 224-225: the frame on entry
search_enter(resource, op_id, base, method) ==
    [pc |-> "base", op_id |-> op_id, base |-> base, method |-> method,
     existing |-> existing_names(resource),
     candidate |-> <<>>, idx |-> 0, tested |-> <<>>, result |-> None]

\* a loop without its `idx += 1`
search_step_same_idx(f) ==
    CASE f.pc = "base" ->
            IF f.base \notin f.existing
            THEN [f EXCEPT !.pc = "return", !.result = Some(f.base),
                           !.tested = Append(@, f.base)]
            ELSE [f EXCEPT !.pc = "candidate", !.tested = Append(@, f.base),
                           !.candidate = f.base \o <<"-">> \o f.method]
      [] f.pc = "candidate" ->
            IF f.candidate \notin f.existing
            THEN [f EXCEPT !.pc = "return", !.result = Some(f.candidate),
                           !.tested = Append(@, f.candidate)]
            ELSE [f EXCEPT !.pc = "loop", !.idx = 2,
                           !.tested = Append(@, f.candidate)]
      [] f.pc = "loop" ->
            LET next == f.candidate \o <<"-">> \o ToDecimal(f.idx)
            IN  IF next \notin f.existing
                THEN [f EXCEPT !.pc = "return", !.result = Some(next),
                               !.tested = Append(@, next)]
                ELSE [f EXCEPT !.tested = IF Len(@) < MaxOps + 3
                                          THEN Append(@, next) ELSE @]

\* one test of `existing`: lines 226-228, 230-233, or one turn of the loop
\* of lines 235-242
search_step(f) ==
    CASE f.pc = "base" ->
            IF f.base \notin f.existing
            THEN [f EXCEPT !.pc = "return", !.result = Some(f.base),
                           !.tested = Append(@, f.base)]
            ELSE [f EXCEPT !.pc = "candidate", !.tested = Append(@, f.base),
                           !.candidate = f.base \o <<"-">> \o f.method]
      [] f.pc = "candidate" ->
            IF f.candidate \notin f.existing
            THEN [f EXCEPT !.pc = "return", !.result = Some(f.candidate),
                           !.tested = Append(@, f.candidate)]
            ELSE [f EXCEPT !.pc = "loop", !.idx = 2,
                           !.tested = Append(@, f.candidate)]
      [] f.pc = "loop" ->
            LET next == f.candidate \o <<"-">> \o ToDecimal(f.idx)
            IN  IF next \notin f.existing
                THEN [f EXCEPT !.pc = "return", !.result = Some(next),
                               !.tested = Append(@, next)]
                ELSE [f EXCEPT !.idx = @ + 1, !.tested = Append(@, next)]

SearchInit ==
    /\ res = [name |-> S_dns, display_name |-> S_DNS, ops |-> <<>>]
    /\ uframe = None
    /\ BuildIdle
    /\ NormIdle
    /\ MergeIdle
    /\ CollectIdle

\* line 91: unique_op_name is called for an operation of the Resource
SearchEnter(op_id, method) ==
    /\ uframe = None
    /\ Len(res.ops) < MaxOps
    /\ uframe' = Some(search_enter(res, op_id, normalize_name(op_id), method))
    /\ UNCHANGED <<res, buildVars, normVars, mergeVars, collectVars>>

SearchStep ==
    /\ uframe.some
    /\ uframe.v.pc # "return"
    /\ uframe' = Some(search_step(uframe.v))
    /\ UNCHANGED <<res, buildVars, normVars, mergeVars, collectVars>>

\* lines 91-101: the name is returned and the Operation pushed
SearchReturn ==
    /\ uframe.some
    /\ uframe.v.pc = "return"
    /\ res' = [res EXCEPT !.ops = Append(@,
                  [name |-> uframe.v.result.v,
                   display_name |-> uframe.v.op_id,
                   method |-> to_uppercase(uframe.v.method),
                   path |-> S_path_a,
                   summary |-> None,
                   description |-> None,
                   parameters |-> <<>>,
                   has_body |-> FALSE])]
    /\ uframe' = None
    /\ UNCHANGED <<buildVars, normVars, mergeVars, collectVars>>

SearchNext ==
    \/ \E op_id \in NameOpIds, method \in NameMethods : SearchEnter(op_id, method)
    \/ SearchStep
    \/ SearchReturn

\* unique_op_name runs on: a call that is entered takes its next step
SpecSearch ==
    /\ SearchInit
    /\ [][SearchNext]_vars
    /\ WF_vars(SearchStep)
    /\ WF_vars(SearchReturn)

----------------------------------------------------------------------------
(* Claims about the search of unique_op_name, checked under SpecSearch. *)

\* the names with a numeric suffix among those tested: all after the base
\* and the candidate
SuffixesTried(f) == IF Len(f.tested) > 2 THEN Len(f.tested) - 2 ELSE 0

Searching == uframe.some /\ uframe.v.pc # "return"

Returned == uframe.some /\ uframe.v.pc = "return"

\* C14: every call of unique_op_name returns a name; while it runs, the
\* number of numeric suffixes it has tried is at most the number of
\* Operations in the Resource, and no name is tested twice; the name
\* returned is the one of unique_op_name taken as a function.
C14_SearchTerminates ==
    /\ [](uframe.some =>
            /\ SuffixesTried(uframe.v) <= Len(res.ops)
            /\ \A i, j \in 1..Len(uframe.v.tested) :
                  i # j => uframe.v.tested[i] # uframe.v.tested[j]
            /\ Returned =>
                  uframe.v.result
                      = Some(unique_op_name(res, uframe.v.base, uframe.v.method)))
    /\ (Searching ~> Returned)

\* C14's case: a call returns after it has tried two numeric suffixes, in a
\* Resource that holds the base, the candidate and the first suffixed name.
C14_Witness ==
    /\ Returned
    /\ SuffixesTried(uframe.v) = 2
    /\ Len(res.ops) = 3

----------------------------------------------------------------------------
(* The flags of an Operation's parameters, checked under SpecMerge: the     *)
(* parameters of an Operation are the value merge_parameters returns        *)
(* (openapi.rs 63-64), and main.rs 191-193 makes one argument per           *)
(* parameter, named by its flag.                                           *)
(***************************************************************************)

\* C15: no two parameters of one Operation have the same flag, also when
\* they have the same name in different locations.
C15_FlagsDistinct ==
    mout.some =>
    \A i, j \in 1..Len(mout.v) : i # j => mout.v[i].flag # mout.v[j].flag

====
